---- MODULE Spec2Model ----
(***************************************************************************)
(* A model of the futures/spot analysis core of the crypto volume analysis *)
(* toolkit: PDFParser and DataProcessor of                                 *)
(* crypto_vat_app/engines/futures_engine.py, and the log capture of        *)
(* src/state.py.                                                           *)
(*                                                                         *)
(* A Python str is a sequence of characters; a character is a one-letter   *)
(* string ("sz" stands for U+00DF, the one character of the alphabet whose *)
(* upper case is two characters long).  None is the value None.            *)
(***************************************************************************)
EXTENDS Integers, Sequences, FiniteSets, TLC

VARIABLES
    \* PDFParser._clean_ticker_strict applied to one text (Spec)
    tk_pc, tk_text, tk_cleaned, tk_norm, tk_renorm,
    \* PDFParser._parse_page_smart on one page (Spec)
    pg_pc, lines, li, financials, raw_text_lines, i, token_pairs, tokens,
    \* run_futures_analysis, one invocation (Spec)
    pc, user_id, page_no, data, f_df, s_df, html, outcome, pdf_file,
    \* LogCatcher.write under worker threads (SpecLog)
    USER_LOGS, USER_PROGRESS, LOCK, th, appended, nwrites,
    \* two concurrent invocations of run_futures_analysis (SpecConc)
    inv, files, touched

tickVars == <<tk_pc, tk_text, tk_cleaned, tk_norm, tk_renorm>>
pageVars == <<pg_pc, lines, li, financials, raw_text_lines, i, token_pairs, tokens>>
pipeVars == <<pc, user_id, page_no, data, f_df, s_df, html, outcome, pdf_file>>
logVars  == <<USER_LOGS, USER_PROGRESS, LOCK, th, appended, nwrites>>
concVars == <<inv, files, touched>>
vars == <<tickVars, pageVars, pipeVars, logVars, concVars>>

-----------------------------------------------------------------------------
(* Characters and the str methods the code uses.                           *)

LowerSeq == <<"a","b","c","d","e","f","g","h","i","j","k","l","m",
              "n","o","p","q","r","s","t","u","v","w","x","y","z">>
UpperSeq == <<"A","B","C","D","E","F","G","H","I","J","K","L","M",
              "N","O","P","Q","R","S","T","U","V","W","X","Y","Z">>
Range(s) == {s[k] : k \in 1..Len(s)}
DigitChars == {"0","1","2","3","4","5","6","7","8","9"}
\* the characters str.strip() removes and \s matches
SpaceChars == {" ", "\t", "\n"}

None == <<"None">>
\* an exception raised by a library call
Raises == <<"raises">>

\* Python truthiness of an Optional[str]: None and "" are false.
Truthy(v) == v /= None /\ v /= <<>>

IndexIn(seq, c) == CHOOSE k \in 1..Len(seq) : seq[k] = c

FlatMap(seq, F(_)) ==
    LET f[k \in 0..Len(seq)] == IF k = 0 THEN <<>> ELSE f[k-1] \o F(seq[k])
    IN f[Len(seq)]

\* str.upper(): one character may become two.
UpperOfChar(c) ==
    IF c \in Range(LowerSeq) THEN <<UpperSeq[IndexIn(LowerSeq, c)]>>
    ELSE IF c = "sz" THEN <<"S","S">>
    ELSE <<c>>
StrUpper(text) == FlatMap(text, UpperOfChar)

\* str.lower()
LowerOfChar(c) ==
    IF c \in Range(UpperSeq) THEN <<LowerSeq[IndexIn(UpperSeq, c)]>> ELSE <<c>>
StrLower(text) == FlatMap(text, LowerOfChar)

IsAZ09(c) == c \in Range(UpperSeq) \cup DigitChars

\* re.sub(r'[^A-Z0-9]', '', text.upper())
NormalizeFirstOnly(text) ==
    LET up == StrUpper(text)
        bad == {k \in 1..Len(up) : ~IsAZ09(up[k])}
    IN IF bad = {} THEN up
       ELSE LET b == CHOOSE k \in bad : \A m \in bad : k <= m
            IN SubSeq(up, 1, b-1) \o SubSeq(up, b+1, Len(up))
Normalize(text) == SelectSeq(StrUpper(text), IsAZ09)

\* the lambda of PDFParser.extract: re.sub(r'[^A-Z0-9]', '', str(x).upper())
ExtractNormalize(x) == SelectSeq(StrUpper(x), IsAZ09)

CleanNoRawLimit(text) ==
    LET cleaned == Normalize(text)
    IN IF 2 <= Len(cleaned) /\ Len(cleaned) <= 12 THEN cleaned ELSE None
\* PDFParser._clean_ticker_strict
clean_ticker_strict(text) ==
    IF Len(text) > 15 THEN None
    ELSE LET cleaned == Normalize(text)
         IN IF 2 <= Len(cleaned) /\ Len(cleaned) <= 12 THEN cleaned ELSE None

-----------------------------------------------------------------------------
(* SpecTicker: _clean_ticker_strict and the normalizer on one text.        *)

MaxTextLen == 3
MaxAlnum == 14
MaxJunk == 4

TickAlphabet == {"a", "B", "7", "-", "sz"}
RECURSIVE StringsUpTo(_, _)
StringsUpTo(alphabet, n) ==
    IF n = 0 THEN {<<>>}
    ELSE LET shorter == StringsUpTo(alphabet, n-1)
         IN shorter \cup {Append(s, c) : s \in shorter, c \in alphabet}
Repeat(c, n) == [k \in 1..n |-> c]
\* k alphanumeric characters, m characters the normalizer removes, mixed case
Padded == {Repeat("x", k) \o Repeat(".", m) : k \in 0..MaxAlnum, m \in 0..MaxJunk}
              \cup {Repeat("9", k) \o Repeat(" ", m) \o <<"Q">> : k \in 0..MaxAlnum, m \in 0..MaxJunk}
TickerTexts == StringsUpTo(TickAlphabet, MaxTextLen) \cup Padded

EmptyFrame == [columns |-> <<>>, rows |-> <<>>]

pageIdle ==
    /\ pg_pc = "off" /\ lines = <<>> /\ li = 0 /\ financials = <<>>
    /\ raw_text_lines = <<>> /\ i = 0 /\ token_pairs = <<>> /\ tokens = <<>>
pipeIdle ==
    /\ pc = "off" /\ user_id = <<>> /\ page_no = 0
    /\ data = <<>> /\ f_df = EmptyFrame /\ s_df = EmptyFrame /\ html = None
    /\ outcome = "off"
    /\ pdf_file = None
logIdle ==
    /\ USER_LOGS = <<>> /\ USER_PROGRESS = <<>> /\ LOCK = 0 /\ th = <<>>
    /\ appended = <<>> /\ nwrites = 0
concIdle == inv = <<>> /\ files = <<>> /\ touched = <<>>
tickIdle ==
    /\ tk_pc = "off" /\ tk_text = <<>> /\ tk_cleaned = None /\ tk_norm = None
    /\ tk_renorm = None

TickerInit ==
    /\ tk_pc = "call" /\ tk_text \in TickerTexts
    /\ tk_cleaned = None /\ tk_norm = None /\ tk_renorm = None
    /\ pageIdle /\ pipeIdle

\* a call of _clean_ticker_strict(tk_text)
CleanTicker ==
    /\ tk_pc = "call"
    /\ tk_cleaned' = clean_ticker_strict(tk_text)
    /\ tk_pc' = "cleaned"
    /\ UNCHANGED <<tk_text, tk_norm, tk_renorm, pageVars, pipeVars, logVars, concVars>>

\* the normalizer applied to tk_text
NormalizeText ==
    /\ tk_pc = "call"
    /\ tk_norm' = Normalize(tk_text)
    /\ tk_pc' = "normalized"
    /\ UNCHANGED <<tk_text, tk_cleaned, tk_renorm, pageVars, pipeVars, logVars, concVars>>

\* the re-normalization of extract applied to a ticker that is already
\* normalized: a record's ticker (tk_cleaned), or a normalizer's output
ReNormalize ==
    /\ \/ tk_pc = "cleaned" /\ tk_cleaned /= None
          /\ tk_renorm' = ExtractNormalize(tk_cleaned)
       \/ tk_pc = "normalized"
          /\ tk_renorm' = ExtractNormalize(tk_norm)
    /\ tk_pc' = "renormalized"
    /\ UNCHANGED <<tk_text, tk_cleaned, tk_norm, pageVars, pipeVars, logVars, concVars>>

TickerNext == CleanTicker \/ NormalizeText \/ ReNormalize

-----------------------------------------------------------------------------
(* PDFParser.FINANCIAL_PATTERN and re.search.  A matcher gives the         *)
(* positions at which its sub-pattern can end, in the order in which the    *)
(* backtracking engine tries them (greedy first); position p is the index  *)
(* of the next character to read.                                          *)

NumChars == DigitChars \cup {",", "."}
SuffixChars == {"k", "K", "m", "M", "b", "B"}
SignChars == {"+", "-"}
\* [\-\...]: the hyphen; the class's other members are not ASCII
DashChars == {"-"}
S_NA == <<"N","/","A">>

CharAt(s, p, C) == p <= Len(s) /\ s[p] \in C
\* c?
OptClass(s, p, C) == IF CharAt(s, p, C) THEN <<p + 1, p>> ELSE <<p>>
RunLen(s, p, C) ==
    CHOOSE n \in 0..(Len(s) + 1 - p) :
        /\ \A k \in p..(p + n - 1) : s[k] \in C
        /\ ~CharAt(s, p + n, C)
\* c+
PlusClass(s, p, C) == LET n == RunLen(s, p, C) IN [k \in 1..n |-> p + n + 1 - k]
\* c*
StarClass(s, p, C) == PlusClass(s, p, C) \o <<p>>
\* a literal
Literal(s, p, lit) ==
    IF p + Len(lit) - 1 <= Len(s) /\ SubSeq(s, p, p + Len(lit) - 1) = lit
    THEN <<p + Len(lit)>> ELSE <<>>

\* \$?[+-]?[\d,\.]+[kKmMbB]?
NumEnds(s, p) ==
    FlatMap(OptClass(s, p, {"$"}), LAMBDA a :
     FlatMap(OptClass(s, a, SignChars), LAMBDA b :
      FlatMap(PlusClass(s, b, NumChars), LAMBDA c :
       OptClass(s, c, SuffixChars))))

\* [+\-]?[\d\.\,]+\%?|[\-...]|N\/A
PctEnds(s, p) ==
    FlatMap(OptClass(s, p, SignChars), LAMBDA a :
     FlatMap(PlusClass(s, a, NumChars), LAMBDA b :
      OptClass(s, b, {"%"})))
    \o (IF CharAt(s, p, DashChars) THEN <<p + 1>> ELSE <<>>)
    \o Literal(s, p, S_NA)

\* (?:(...)\s+)? : the group's text (None when the group took no part) and
\* the position after it
OptGroup(s, p) ==
    FlatMap(PctEnds(s, p), LAMBDA e :
     FlatMap(PlusClass(s, e, SpaceChars), LAMBDA w :
      <<[g |-> SubSeq(s, p, e - 1), p |-> w]>>))
    \o <<[g |-> None, p |-> p]>>

\* \d*\.?\d+
VtmrEnds(s, p) ==
    FlatMap(StarClass(s, p, DigitChars), LAMBDA a :
     FlatMap(OptClass(s, a, {"."}), LAMBDA b :
      PlusClass(s, b, DigitChars)))

\* the matches of FINANCIAL_PATTERN that start at p0: their groups()
MatchesAt(s, p0) ==
    FlatMap(NumEnds(s, p0), LAMBDA e1 :
     FlatMap(PlusClass(s, e1, SpaceChars), LAMBDA w1 :
      FlatMap(NumEnds(s, w1), LAMBDA e2 :
       FlatMap(PlusClass(s, e2, SpaceChars), LAMBDA w2 :
        FlatMap(OptGroup(s, w2), LAMBDA o3 :
         FlatMap(OptGroup(s, o3.p), LAMBDA o4 :
          FlatMap(VtmrEnds(s, o4.p), LAMBDA e5 :
           << <<SubSeq(s, p0, e1 - 1), SubSeq(s, w1, e2 - 1), o3.g, o4.g,
                SubSeq(s, o4.p, e5 - 1)>> >>)))))))

\* FINANCIAL_PATTERN.search(line): None, or the groups() of the first match
\* at the leftmost position that has one
RECURSIVE SearchFrom(_, _)
SearchFrom(line, p) ==
    IF p > Len(line) + 1 THEN None
    ELSE LET found == MatchesAt(line, p)
         IN IF found /= <<>> THEN Head(found) ELSE SearchFrom(line, p + 1)
PatternSearch(line) == SearchFrom(line, 1)

\* s.replace(c, '')
Without(s, c) == SelectSeq(s, LAMBDA x : x /= c)

\* k in s
Contains(s, k) ==
    \E p \in 1..(Len(s) - Len(k) + 1) : SubSeq(s, p, p + Len(k) - 1) = k

\* str.isdigit()
IsDigitStr(s) == Len(s) > 0 /\ \A k \in 1..Len(s) : s[k] \in DigitChars

\* float(text) of a text of digits and dots: whether it raises ValueError, and
\* the value num / 10^scale, scale the least possible
DigitValue(c) == (CHOOSE k \in 1..10 : <<"0","1","2","3","4","5","6","7","8","9">>[k] = c) - 1
RECURSIVE DigitsValue(_)
DigitsValue(ds) ==
    IF ds = <<>> THEN 0
    ELSE 10 * DigitsValue(SubSeq(ds, 1, Len(ds) - 1)) + DigitValue(ds[Len(ds)])
RECURSIVE Reduce10(_, _)
Reduce10(num, scale) ==
    IF scale > 0 /\ num % 10 = 0 THEN Reduce10(num \div 10, scale - 1)
    ELSE [num |-> num, scale |-> scale]
FloatRaises(text) ==
    \/ \E k \in 1..Len(text) : text[k] \notin DigitChars \cup {"."}
    \/ Cardinality({k \in 1..Len(text) : text[k] = "."}) > 1
    \/ \A k \in 1..Len(text) : text[k] \notin DigitChars
ParseFloat(text) ==
    LET dots == {k \in 1..Len(text) : text[k] = "."}
        digits == SelectSeq(text, LAMBDA c : c \in DigitChars)
    IN IF dots = {} THEN Reduce10(DigitsValue(digits), 0)
       ELSE Reduce10(DigitsValue(digits), Len(text) - (CHOOSE k \in dots : TRUE))

-----------------------------------------------------------------------------
(* PDFParser._parse_page_smart                                             *)

IGNORE_KEYWORDS ==
    {<<"p","a","g","e">>, <<"c","o","i","n","a","l","y","z","e">>,
     <<"c","o","n","t","r","a","c","t">>, <<"f","i","l","t","e","r">>,
     <<"c","o","l","u","m","n">>, <<"m","k","t"," ","c","a","p">>,
     <<"v","o","l"," ","2","4","h">>}

\* one iteration of `for line in lines`: the two lists after it.  A
\* financial tuple is (mc, vol, vtmr, oi_str, fund_str).
ClassifyLine(line, fins, raws) ==
    IF \E k \in IGNORE_KEYWORDS : Contains(StrLower(line), k)
    THEN [financials |-> fins, raw_text_lines |-> raws]
    ELSE LET groups == PatternSearch(line)
         IN IF groups /= None
            THEN LET mc == Without(Without(groups[1], "$"), ",")
                     vol == Without(Without(groups[2], "$"), ",")
                     oi_str == groups[3]
                     fund_str == groups[4]
                     vtmr == groups[5]
                 IN IF ~FloatRaises(vtmr)
                    THEN [financials |-> Append(fins, <<mc, vol, vtmr, oi_str, fund_str>>),
                          raw_text_lines |-> raws]
                    ELSE [financials |-> fins, raw_text_lines |-> Append(raws, line)]
            ELSE IF ~IsDigitStr(line) /\ Len(line) > 1
                 THEN [financials |-> fins, raw_text_lines |-> Append(raws, line)]
                 ELSE [financials |-> fins, raw_text_lines |-> raws]

ResolveCleanedName(raws, idx, pairs) ==
    LET line == raws[idx + 1]
        clean_current == clean_ticker_strict(line)
        has_next == idx + 1 < Len(raws)
    IN IF Truthy(clean_current) /\ has_next
          /\ Truthy(clean_ticker_strict(raws[idx + 2]))
       THEN [i |-> idx + 2,
             token_pairs |-> Append(pairs, <<clean_current, clean_ticker_strict(raws[idx + 2])>>)]
       ELSE IF has_next
       THEN LET ticker == clean_ticker_strict(raws[idx + 2])
            IN IF Truthy(ticker)
               THEN [i |-> idx + 2, token_pairs |-> Append(pairs, <<raws[idx + 1], ticker>>)]
               ELSE [i |-> idx + 1, token_pairs |-> pairs]
       ELSE [i |-> idx + 1, token_pairs |-> pairs]
\* one iteration of `while i < len(raw_text_lines)`: i and token_pairs after
\* it (idx is the code's i, counted from 0)
ResolveStep(raws, idx, pairs) ==
    LET line == raws[idx + 1]
        clean_current == clean_ticker_strict(line)
        has_next == idx + 1 < Len(raws)
    IN IF Truthy(clean_current) /\ has_next
          /\ Truthy(clean_ticker_strict(raws[idx + 2]))
       THEN [i |-> idx + 2,
             token_pairs |-> Append(pairs, <<line, clean_ticker_strict(raws[idx + 2])>>)]
       ELSE IF has_next
       THEN LET name_candidate == raws[idx + 1]
                ticker == clean_ticker_strict(raws[idx + 2])
            IN IF Truthy(ticker)
               THEN [i |-> idx + 2, token_pairs |-> Append(pairs, <<name_candidate, ticker>>)]
               ELSE [i |-> idx + 1, token_pairs |-> pairs]
       ELSE [i |-> idx + 1, token_pairs |-> pairs]

Min(a, b) == IF a <= b THEN a ELSE b

\* TokenData(ticker=..., name=..., market_cap=mc, volume=vol,
\*           vtmr=float(vtmr), funding=fund_pct, oiss=oi_pct)
TokenData(pair, fin) ==
    [ticker |-> pair[2], name |-> pair[1], market_cap |-> fin[1], volume |-> fin[2],
     vtmr |-> ParseFloat(fin[3]), funding |-> fin[5], oiss |-> fin[4]]

BuildTokensSkipFirst(pairs, fins) ==
    LET limit == Min(Len(pairs), Len(fins))
    IN [k \in 1..(limit - 1) |-> TokenData(pairs[k + 1], fins[k + 1])]
\* limit = min(len(token_pairs), len(financials)); for k in range(limit): ...
BuildTokens(pairs, fins) ==
    LET limit == Min(Len(pairs), Len(fins))
    IN [k \in 1..limit |-> TokenData(pairs[k], fins[k])]

\* the lines of the model's pages
Line ==
    [BTC |-> <<"B","T","C">>,
     ETH |-> <<"E","T","H">>,
     Bitcoin |-> <<"B","i","t","c","o","i","n">>,
     btc_usd |-> <<"b","t","c","-","u","s","d">>,
     LongName |-> <<"B","i","t","c","o","i","n"," ","C","a","s","h"," ","T","o","k","e","n">>,
     Page1 |-> <<"P","a","g","e"," ","1">>,
     Digits |-> <<"4","2">>,
     FinFull |-> <<"1",".","2","M"," ","5","0","0","K"," ","-"," ","-"," ","0",".","8","7">>,
     FinPct |-> <<"$","1",",","2","3","4",".","5","M"," ","5","0","0","K"," ","+","5",".","1","%"," ","N","/","A"," ","0",".","8","7","0">>,
     FinBare |-> <<"1",".","2","M"," ","5","0","0","K"," ","0",".","8","7">>,
     FinOne |-> <<"3",".","4","B"," ","7","0","0","K"," ","5","%"," ","1",".","5">>,
     NotFin |-> <<"1",".","2","M"," ","5","0","0","K"," ","-"," ","-"," ","N","/","A">>]

MaxLines == 4

BasicLines == {Line.BTC, Line.btc_usd, Line.LongName, Line.Page1, Line.FinFull, Line.FinBare}
RECURSIVE SeqsUpTo(_, _)
SeqsUpTo(S, n) ==
    IF n = 0 THEN {<<>>}
    ELSE LET shorter == SeqsUpTo(S, n - 1)
         IN shorter \cup {Append(q, x) : q \in shorter, x \in S}
\* the label sequence of the resolver's example, then two financial lines
PageTickerTicker == <<Line.BTC, Line.BTC, Line.Bitcoin, Line.ETH, Line.FinPct, Line.FinOne>>
\* three name/ticker pairs and two financial lines
PageThreeTwo ==
    <<Line.Bitcoin, Line.BTC, Line.FinFull, Line.LongName, Line.ETH, Line.FinOne, Line.Digits, Line.btc_usd, Line.btc_usd>>
\* one pair and three financial lines, one line that only looks financial
PageOneThree == <<Line.NotFin, Line.ETH, Line.FinBare, Line.FinOne, Line.FinPct>>
Pages == SeqsUpTo(BasicLines, MaxLines) \cup {PageTickerTicker, PageThreeTwo, PageOneThree}

PageInit ==
    /\ pg_pc = "for" /\ lines \in Pages /\ li = 0
    /\ financials = <<>> /\ raw_text_lines = <<>>
    /\ i = 0 /\ token_pairs = <<>> /\ tokens = <<>>
    /\ tickIdle /\ pipeIdle

\* for line in lines: ...
ForLine ==
    /\ pg_pc = "for" /\ li < Len(lines)
    /\ LET r == ClassifyLine(lines[li + 1], financials, raw_text_lines)
       IN /\ financials' = r.financials
          /\ raw_text_lines' = r.raw_text_lines
    /\ li' = li + 1
    /\ UNCHANGED <<pg_pc, lines, i, token_pairs, tokens>>
    /\ UNCHANGED <<tickVars, pipeVars, logVars, concVars>>

\* token_pairs = []; i = 0
StartWhile ==
    /\ pg_pc = "for" /\ li = Len(lines)
    /\ token_pairs' = <<>> /\ i' = 0 /\ pg_pc' = "while"
    /\ UNCHANGED <<lines, li, financials, raw_text_lines, tokens>>
    /\ UNCHANGED <<tickVars, pipeVars, logVars, concVars>>

\* while i < len(raw_text_lines): ...
WhileStep ==
    /\ pg_pc = "while" /\ i < Len(raw_text_lines)
    /\ LET r == ResolveStep(raw_text_lines, i, token_pairs)
       IN i' = r.i /\ token_pairs' = r.token_pairs
    /\ UNCHANGED <<pg_pc, lines, li, financials, raw_text_lines, tokens>>
    /\ UNCHANGED <<tickVars, pipeVars, logVars, concVars>>

\* the loop is left; tokens are built and returned
ReturnTokens ==
    /\ pg_pc = "while" /\ ~(i < Len(raw_text_lines))
    /\ tokens' = BuildTokens(token_pairs, financials)
    /\ pg_pc' = "done"
    /\ UNCHANGED <<lines, li, financials, raw_text_lines, i, token_pairs>>
    /\ UNCHANGED <<tickVars, pipeVars, logVars, concVars>>

PageNext == ForLine \/ StartWhile \/ WhileStep \/ ReturnTokens

\* _parse_page_smart(lines) as a function of the page
RECURSIVE ClassifyAll(_, _)
ClassifyAll(ls, acc) ==
    IF ls = <<>> THEN acc
    ELSE ClassifyAll(Tail(ls), ClassifyLine(Head(ls), acc.financials, acc.raw_text_lines))
RECURSIVE ResolveAll(_, _)
ResolveAll(raws, st) ==
    IF ~(st.i < Len(raws)) THEN st.token_pairs
    ELSE ResolveAll(raws, ResolveStep(raws, st.i, st.token_pairs))
\* the while loop and the zip over what the for loop left
PairTokens(c) ==
    BuildTokens(ResolveAll(c.raw_text_lines, [i |-> 0, token_pairs |-> <<>>]), c.financials)
parse_page_smart(ls) ==
    PairTokens(ClassifyAll(ls, [financials |-> <<>>, raw_text_lines |-> <<>>]))

-----------------------------------------------------------------------------
(* pandas DataFrames: the column labels and the rows, a row holding one    *)
(* value per column.                                                       *)

\* DataFrame.empty
FrameEmpty(df) == df.columns = <<>> \/ df.rows = <<>>
HasColumn(df, c) == \E k \in 1..Len(df.columns) : df.columns[k] = c
ColumnIndex(df, c) == CHOOSE k \in 1..Len(df.columns) : df.columns[k] = c
MapSeq(q, F(_)) == [k \in 1..Len(q) |-> F(q[k])]
\* df[c] = df[c].apply(F)
ApplyColumn(df, c, F(_)) ==
    LET at == ColumnIndex(df, c)
    IN [df EXCEPT !.rows = MapSeq(df.rows, LAMBDA row : [row EXCEPT ![at] = F(row[at])])]

\* the columns of the futures frame: the fields of TokenData
Col ==
    [ticker |-> <<"t","i","c","k","e","r">>,
     name |-> <<"n","a","m","e">>,
     market_cap |-> <<"m","a","r","k","e","t","_","c","a","p">>,
     volume |-> <<"v","o","l","u","m","e">>,
     vtmr |-> <<"v","t","m","r">>,
     funding |-> <<"f","u","n","d","i","n","g">>,
     oiss |-> <<"o","i","s","s">>]
\* pd.DataFrame([vars(t) for t in data]): the fields of TokenData in order
TokenFrame(ts) ==
    IF ts = <<>> THEN EmptyFrame
    ELSE [columns |-> <<Col.ticker, Col.name, Col.market_cap, Col.volume, Col.vtmr, Col.funding, Col.oiss>>,
          rows |-> MapSeq(ts, LAMBDA t :
                      <<t.ticker, t.name, t.market_cap, t.volume, t.vtmr, t.funding, t.oiss>>)]

(* PDFParser.extract                                                       *)

\* str.strip()
RECURSIVE LStrip(_)
LStrip(t) == IF t /= <<>> /\ Head(t) \in SpaceChars THEN LStrip(Tail(t)) ELSE t
RECURSIVE RStrip(_)
RStrip(t) ==
    IF t /= <<>> /\ t[Len(t)] \in SpaceChars THEN RStrip(SubSeq(t, 1, Len(t) - 1)) ELSE t
Strip(t) == RStrip(LStrip(t))
\* str.split("\n")
RECURSIVE SplitLines(_)
SplitLines(t) ==
    IF \A k \in 1..Len(t) : t[k] /= "\n" THEN <<t>>
    ELSE LET at == CHOOSE k \in 1..Len(t) : t[k] = "\n" /\ \A m \in 1..(k - 1) : t[m] /= "\n"
         IN <<SubSeq(t, 1, at - 1)>> \o SplitLines(SubSeq(t, at + 1, Len(t)))
\* [ln.strip() for ln in (page.extract_text() or "").split("\n") if ln.strip()]
PageLines(text) ==
    LET t == IF Truthy(text) THEN text ELSE <<>>
    IN SelectSeq(MapSeq(SplitLines(t), Strip), LAMBDA ln : ln /= <<>>)

\* df = pd.DataFrame(...); if not df.empty: df['ticker'] = df['ticker'].apply(...)
ExtractFrame(ts) ==
    LET df == TokenFrame(ts)
    IN IF ~FrameEmpty(df) THEN ApplyColumn(df, Col.ticker, ExtractNormalize) ELSE df

(* DataProcessor.load_spot                                                 *)

\* the lambda of load_spot: re.sub(r'[^A-Z0-9]', '', str(x).upper())
SpotNormalize(x) == SelectSeq(StrUpper(x), IsAZ09)
\* the body of the try block for the table read_html gave
LoadSpotFrame(table) ==
    LET lowered == [table EXCEPT !.columns = MapSeq(table.columns, StrLower)]
        hits == {k \in 1..Len(lowered.columns) :
                    Contains(lowered.columns[k], <<"t","i","c","k">>) \/ Contains(lowered.columns[k], <<"s","y","m">>)}
        renamed ==
            IF ~HasColumn(lowered, Col.ticker) /\ hits /= {}
            THEN LET c == lowered.columns[CHOOSE k \in hits : \A m \in hits : k <= m]
                 IN [lowered EXCEPT !.columns =
                        MapSeq(lowered.columns, LAMBDA x : IF x = c THEN Col.ticker ELSE x)]
            ELSE lowered
    IN IF HasColumn(renamed, Col.ticker)
       THEN ApplyColumn(renamed, Col.ticker, SpotNormalize)
       ELSE renamed

(* DataProcessor.generate_report                                           *)

\* pd.merge(left, right, on=key, how='inner', suffixes=(ls, rs)), both
\* frames holding the key column: the rows in the order of the left keys
MergeInner(left, right, key, ls, rs) ==
    LET lk == ColumnIndex(left, key)
        rk == ColumnIndex(right, key)
        Others(df, at) == SelectSeq([k \in 1..Len(df.columns) |-> k], LAMBDA k : k /= at)
        lo == Others(left, lk)
        ro == Others(right, rk)
        Clash(c) == (\E k \in 1..Len(lo) : left.columns[lo[k]] = c)
                    /\ (\E k \in 1..Len(ro) : right.columns[ro[k]] = c)
        Label(df, k, at, suffix) ==
            IF k /= at /\ Clash(df.columns[k]) THEN df.columns[k] \o suffix ELSE df.columns[k]
        Pick(row, idxs) == [k \in 1..Len(idxs) |-> row[idxs[k]]]
    IN [columns |-> [k \in 1..Len(left.columns) |-> Label(left, k, lk, ls)]
                    \o [k \in 1..Len(ro) |-> Label(right, ro[k], rk, rs)],
        rows |-> FlatMap(left.rows, LAMBDA l :
                   FlatMap(right.rows, LAMBDA r :
                      IF l[lk] = r[rk] THEN <<l \o Pick(r, ro)>> ELSE <<>>))]

S_legend == <<"l","e","g","e","n","d">>
\* the html of a report: its heading's user id, its table, its footer
ReportHtml(merged, uid) == <<uid, merged, S_legend>>
HtmlHeading(h) == h[1]
HtmlTable(h) == h[2]

\* generate_report(futures_df, spot_df, user_id): the html or None it
\* returns, or the KeyError pd.merge raises when a frame has no key column
generate_report(futures_df, spot_df, uid) ==
    IF FrameEmpty(futures_df) \/ FrameEmpty(spot_df) THEN [raised |-> FALSE, html |-> None]
    ELSE IF ~HasColumn(spot_df, Col.ticker) \/ ~HasColumn(futures_df, Col.ticker)
    THEN [raised |-> TRUE, html |-> None]
    ELSE [raised |-> FALSE,
          html |-> ReportHtml(MergeInner(spot_df, futures_df, Col.ticker, <<"_","s","p","o","t">>, <<"_","f","u","t">>), uid)]

-----------------------------------------------------------------------------
(* run_futures_analysis(user_id): one invocation.  What the files hold and *)
(* what the libraries and the remote service answer is chosen when the     *)
(* code asks for it.                                                       *)

MaxPages == 2
MaxSpotRows == 2


RECURSIVE JoinLines(_)
JoinLines(ls) ==
    IF ls = <<>> THEN <<>>
    ELSE IF Len(ls) = 1 THEN Head(ls)
    ELSE Head(ls) \o <<"\n">> \o JoinLines(Tail(ls))
\* the texts page.extract_text() gives: None, page texts, one with blank
\* lines and spaces around its lines
PageTexts ==
    {None,
     JoinLines(PageTickerTicker),
     JoinLines(PageOneThree),
     JoinLines(<<<<" ">> \o Line.btc_usd, <<>>, Line.btc_usd \o <<" ", " ">>, Line.FinBare, <<" ">>>>)}

\* column labels of spot tables
Header ==
    [TickerCap |-> <<"T","i","c","k","e","r">>,
     VolumeCap |-> <<"V","o","l","u","m","e">>,
     Sym |-> <<"S","y","m",".">>,
     Price |-> <<"P","r","i","c","e">>,
     Coin |-> <<"C","o","i","n">>]
SpotHeaders == {<<Header.TickerCap, Header.VolumeCap>>, <<Header.Price, Header.Sym>>, <<Header.Coin, Header.Price>>}
SpotCells == {<<"b","t","c">>, <<"S","o","l">>, <<"E","T","H">>}
\* the first table of the spot file: a header and rows of (symbol, number)
SpotTables ==
    {[columns |-> h,
      rows |-> MapSeq(cells, LAMBDA c : IF h[1] = Header.Price THEN <<<<"1">>, c>> ELSE <<c, <<"1">>>>)] :
        h \in SpotHeaders, cells \in SeqsUpTo(SpotCells, MaxSpotRows)}

PipeInit ==
    /\ pc = "start" /\ user_id \in {<<"u","1">>} /\ page_no = 0 /\ data = <<>>
    /\ f_df = EmptyFrame /\ s_df = EmptyFrame /\ html = None
    /\ outcome = "running" /\ pdf_file = None
    /\ tickIdle /\ pageIdle

\* if not spot_file.exists() or not futures_file.exists(): print(...); return
CheckFiles ==
    /\ pc = "start"
    /\ \E spot_exists \in BOOLEAN, futures_exists \in BOOLEAN :
         IF ~spot_exists \/ ~futures_exists
         THEN pc' = "done" /\ outcome' = "returned"
         ELSE pc' = "extract" /\ outcome' = outcome
    /\ UNCHANGED <<user_id, page_no, data, f_df, s_df, html, pdf_file>>
    /\ UNCHANGED <<tickVars, pageVars, logVars, concVars>>

\* PDFParser.extract up to the loop: without pypdf, or when PdfReader
\* raises, an empty frame is returned
ExtractOpen ==
    /\ pc = "extract"
    /\ \E reader \in {"no pypdf", "raises", "opened"} :
         IF reader = "opened"
         THEN pc' = "pages" /\ f_df' = f_df
         ELSE pc' = "load_spot" /\ f_df' = EmptyFrame
    /\ data' = <<>>
    /\ UNCHANGED <<user_id, page_no, s_df, html, outcome, pdf_file>>
    /\ UNCHANGED <<tickVars, pageVars, logVars, concVars>>

\* for page in reader.pages: one page; extract_text may raise, which the
\* except clause turns into an empty frame
ExtractPage ==
    /\ pc = "pages" /\ page_no < MaxPages
    /\ \E text \in PageTexts \cup {Raises} :
         IF text = Raises
         THEN pc' = "load_spot" /\ f_df' = EmptyFrame /\ data' = data
         ELSE /\ data' = data \o parse_page_smart(PageLines(text))
              /\ pc' = pc /\ f_df' = f_df
    /\ page_no' = page_no + 1
    /\ UNCHANGED <<user_id, s_df, html, outcome, pdf_file>>
    /\ UNCHANGED <<tickVars, pageVars, logVars, concVars>>

\* the pages are exhausted: the frame is built and returned
ExtractReturn ==
    /\ pc = "pages"
    /\ f_df' = ExtractFrame(data)
    /\ pc' = "load_spot"
    /\ UNCHANGED <<user_id, page_no, data, s_df, html, outcome, pdf_file>>
    /\ UNCHANGED <<tickVars, pageVars, logVars, concVars>>

\* DataProcessor.load_spot: read_html raises (malformed HTML, no table), or
\* gives a table whose column labels are numbers (c.lower() raises), or a
\* table with a header
LoadSpot ==
    /\ pc = "load_spot"
    /\ \E read \in {"raises", "number labels", "table"} :
         IF read \in {"raises", "number labels"}
         THEN s_df' = EmptyFrame
         ELSE \E table \in SpotTables : s_df' = LoadSpotFrame(table)
    /\ pc' = "report"
    /\ UNCHANGED <<user_id, page_no, data, f_df, html, outcome, pdf_file>>
    /\ UNCHANGED <<tickVars, pageVars, logVars, concVars>>

\* html = DataProcessor.generate_report(f_df, s_df, user_id); if html: ...
GenerateReport ==
    /\ pc = "report"
    /\ LET r == generate_report(f_df, s_df, user_id)
       IN IF r.raised
          THEN pc' = "done" /\ outcome' = "raised" /\ html' = html
          ELSE /\ html' = r.html
               /\ IF r.html /= None
                  THEN pc' = "convert" /\ outcome' = outcome
                  ELSE pc' = "done" /\ outcome' = "returned"
    /\ UNCHANGED <<user_id, page_no, data, f_df, s_df, pdf_file>>
    /\ UNCHANGED <<tickVars, pageVars, logVars, concVars>>

\* convert_html_to_pdf: the file is written when the service answers 200;
\* every exception is swallowed
ConvertPdf ==
    /\ pc = "convert"
    /\ \E resp \in {"raises", "not 200", "200"} :
         pdf_file' = IF resp = "200" THEN html ELSE pdf_file
    /\ pc' = "done" /\ outcome' = "returned"
    /\ UNCHANGED <<user_id, page_no, data, f_df, s_df, html>>
    /\ UNCHANGED <<tickVars, pageVars, logVars, concVars>>

PipeNext ==
    CheckFiles \/ ExtractOpen \/ ExtractPage \/ ExtractReturn \/ LoadSpot
        \/ GenerateReport \/ ConvertPdf

\* one use of the core: a call of _clean_ticker_strict or of the normalizer, a
\* call of _parse_page_smart, or a run of run_futures_analysis
Init ==
    \/ TickerInit /\ logIdle /\ concIdle
    \/ PageInit /\ logIdle /\ concIdle
    \/ PipeInit /\ logIdle /\ concIdle
Next == TickerNext \/ PageNext \/ PipeNext
Spec == Init /\ [][Next]_vars

-----------------------------------------------------------------------------
(* src/state.py: USER_LOGS, USER_PROGRESS, LOCK and LogCatcher.write.  A   *)
(* dict is a function on the keys it holds; LOCK is 0 when free and else   *)
(* the thread that holds it.                                               *)

MAX_LOGS == 500

EmptyDict == [k \in {} |-> <<>>]
DictSet(d, key, v) == [k \in (DOMAIN d) \cup {key} |-> IF k = key THEN v ELSE d[k]]

\* the keywords and the progress texts of the elif chain of write
Keyword ==
    [scanning_coingecko |-> <<"s","c","a","n","n","i","n","g"," ","c","o","i","n","g","e","c","k","o">>,
     scanning_livecoinwatch |-> <<"s","c","a","n","n","i","n","g"," ","l","i","v","e","c","o","i","n","w","a","t","c","h">>,
     parsing_spot_file |-> <<"p","a","r","s","i","n","g"," ","s","p","o","t"," ","f","i","l","e">>,
     parsing_futures_pdf |-> <<"p","a","r","s","i","n","g"," ","f","u","t","u","r","e","s"," ","p","d","f">>,
     converting_to_pdf |-> <<"c","o","n","v","e","r","t","i","n","g"," ","t","o"," ","p","d","f">>,
     completed |-> <<"c","o","m","p","l","e","t","e","d">>,
     pdf_saved |-> <<"p","d","f"," ","s","a","v","e","d">>,
     error |-> <<"e","r","r","o","r">>]
ProgressText ==
    [coingecko |-> <<"F","e","t","c","h","i","n","g"," ","C","o","i","n","G","e","c","k","o"," ","D","a","t","a",".",".",".">>,
     livecoinwatch |-> <<"F","e","t","c","h","i","n","g"," ","L","i","v","e","C","o","i","n","W","a","t","c","h",".",".",".">>,
     spot |-> <<"A","n","a","l","y","z","i","n","g"," ","S","p","o","t"," ","V","o","l","u","m","e","s",".",".",".">>,
     futures |-> <<"P","a","r","s","i","n","g"," ","F","u","t","u","r","e","s"," ","P","D","F",".",".",".">>,
     compiling |-> <<"C","o","m","p","i","l","i","n","g"," ","R","e","p","o","r","t",".",".",".">>,
     completed |-> <<"T","a","s","k"," ","C","o","m","p","l","e","t","e","d"," ","S","u","c","c","e","s","s","f","u","l","l","y">>,
     error |-> <<"E","r","r","o","r"," ","O","c","c","u","r","r","e","d">>]
S_user_ == <<"u","s","e","r","_">>
Status ==
    [active |-> <<"a","c","t","i","v","e">>,
     success |-> <<"s","u","c","c","e","s","s">>,
     error |-> <<"e","r","r","o","r">>]

\* str.startswith(prefix)
StartsWith(t, prefix) == Len(t) >= Len(prefix) /\ SubSeq(t, 1, Len(prefix)) = prefix
\* str.replace(old, ''): every occurrence, left to right
RECURSIVE RemoveAll(_, _)
RemoveAll(t, old) ==
    IF Len(t) < Len(old) THEN t
    ELSE IF SubSeq(t, 1, Len(old)) = old THEN RemoveAll(SubSeq(t, Len(old) + 1, Len(t)), old)
    ELSE <<Head(t)>> \o RemoveAll(Tail(t), old)

\* if msg and msg.strip(): ... if thread_name.startswith("user_"):
Captured(msg, thread_name) ==
    Truthy(msg) /\ Strip(msg) /= <<>> /\ StartsWith(thread_name, S_user_)
\* uid = thread_name.replace("user_", "")
UidOf(thread_name) == RemoveAll(thread_name, S_user_)

\* if uid not in USER_LOGS: USER_LOGS[uid] = []
EnsureList(logs, uid) == IF uid \notin DOMAIN logs THEN DictSet(logs, uid, <<>>) ELSE logs
\* USER_LOGS[uid].append(msg)
AppendLog(logs, uid, msg) == [logs EXCEPT ![uid] = Append(@, msg)]
\* list.pop(0)
PopOldest(list) == Tail(list)
\* if len(USER_LOGS[uid]) > 500: USER_LOGS[uid].pop(0)
TrimLog(logs, uid) ==
    IF Len(logs[uid]) > MAX_LOGS THEN [logs EXCEPT ![uid] = PopOldest(@)] ELSE logs

\* the elif chain of write: the arguments of update_progress, or None
ProgressFor(msg) ==
    LET text == StrLower(msg)
    IN IF Contains(text, Keyword.scanning_coingecko) THEN <<10, ProgressText.coingecko, Status.active>>
       ELSE IF Contains(text, Keyword.scanning_livecoinwatch) THEN <<30, ProgressText.livecoinwatch, Status.active>>
       ELSE IF Contains(text, Keyword.parsing_spot_file) THEN <<50, ProgressText.spot, Status.active>>
       ELSE IF Contains(text, Keyword.parsing_futures_pdf) THEN <<70, ProgressText.futures, Status.active>>
       ELSE IF Contains(text, Keyword.converting_to_pdf) THEN <<90, ProgressText.compiling, Status.active>>
       ELSE IF Contains(text, Keyword.completed) \/ Contains(text, Keyword.pdf_saved)
            THEN <<100, ProgressText.completed, Status.success>>
       ELSE IF Contains(text, Keyword.error) THEN <<0, ProgressText.error, Status.error>>
       ELSE None
\* update_progress(uid, percent, text, status), inside its `with LOCK`
UpdateProgress(progress, uid, args) ==
    DictSet(progress, uid, [percent |-> args[1], text |-> args[2], status |-> args[3]])

LockIgnored(holder) == TRUE
\* LOCK.acquire() returns: the lock is free
CanAcquire(holder) == holder = 0

(* SpecLog: threads that write through LogCatcher.  A worker thread runs    *)
(* the task of a user and is named "user_" + the user's id; user ids are    *)
(* the localId of the identity provider (blueprints/auth.py), letters and   *)
(* digits.  USER_LOGS may hold the messages of the user's earlier tasks.    *)

MaxWritesPerThread == 4

Threads == {1, 2}
WorkerUids == {<<"a","1">>, <<"b","2">>}
RECURSIVE DigitsOf(_)
DigitsOf(n) ==
    LET digit == <<"0","1","2","3","4","5","6","7","8","9">>
    IN IF n < 10 THEN <<digit[n + 1]>> ELSE DigitsOf(n \div 10) \o <<digit[(n % 10) + 1]>>
\* the texts the engine prints; a character that is not ASCII is written U+
\* and its code
Msg ==
    [ParsingFutures |-> <<" "," "," ","P","a","r","s","i","n","g"," ","F","u","t","u","r","e","s"," ","P","D","F",":"," ">>,
     PdfError |-> <<" "," "," ","P","D","F"," ","E","r","r","o","r",":"," ">>,
     Converting |-> <<" "," "," ","C","o","n","v","e","r","t","i","n","g"," ","t","o"," ","P","D","F",".",".",".">>,
     ParsingSpot |-> <<" "," "," ","P","a","r","s","i","n","g"," ","S","p","o","t"," ","F","i","l","e",":"," ">>,
     Complete |-> <<" "," "," ","U+201A","U+00FA","U+00D6"," ","A","n","a","l","y","s","i","s"," ","C","o","m","p","l","e","t","e",".">>,
     Missing |-> <<" "," "," ","U+201A","U+00F9","U+00E5"," ","M","i","s","s","i","n","g"," ","f","i","l","e","s","."," ","R","u","n"," ","S","p","o","t"," ","S","c","a","n"," ","&"," ","U","p","l","o","a","d"," ","P","D","F"," ","f","i","r","s","t",".">>,
     CloudBackup |-> <<" "," "," ","U+F8FF","U+00FC","U+00F6","U+00C4"," ","C","l","o","u","d"," ","B","a","c","k","u","p",":"," ">>]
\* what a thread prints: print(x) writes x and then "\n"; the texts of the
\* engine, each with the thread and the count in it
Message(t, k) ==
    IF k % 2 = 0 THEN <<"\n">>
    ELSE (IF k % 6 = 1 THEN Msg.ParsingFutures ELSE IF k % 6 = 3 THEN Msg.PdfError ELSE Msg.Converting)
            \o DigitsOf(t) \o <<".">> \o DigitsOf(k)
\* the messages an earlier task left
EarlierLogs(n) == [k \in 1..n |-> <<"#">> \o DigitsOf(k)]
ThreadName(uid) == IF uid = None THEN <<"M","a","i","n","T","h","r","e","a","d">> ELSE S_user_ \o uid

LogInit ==
    /\ \E n \in {0, MAX_LOGS - 2, MAX_LOGS} :
          /\ USER_LOGS = IF n = 0 THEN EmptyDict ELSE DictSet(EmptyDict, <<"a","1">>, EarlierLogs(n))
          /\ appended = [u \in WorkerUids |-> IF u = <<"a","1">> THEN EarlierLogs(n) ELSE <<>>]
    /\ USER_PROGRESS = EmptyDict /\ LOCK = 0 /\ nwrites = 0
    /\ th \in [Threads -> {[uid |-> u, name |-> ThreadName(u), pc |-> "idle", sent |-> 0,
                             msg |-> None, key |-> None] : u \in WorkerUids \cup {None}}]
    /\ tickIdle /\ pageIdle /\ pipeIdle /\ concIdle

\* LogCatcher.write(msg) up to the lock: the terminal gets the message; a
\* blank message, or one of a thread that is no worker, is not captured
WriteCall(t) ==
    /\ th[t].pc = "idle" /\ th[t].sent < MaxWritesPerThread
    /\ LET msg == Message(t, th[t].sent + 1)
       IN IF Captured(msg, th[t].name)
          THEN th' = [th EXCEPT ![t].pc = "acquire", ![t].msg = msg,
                                ![t].key = UidOf(th[t].name)]
          ELSE th' = [th EXCEPT ![t].sent = @ + 1]
    /\ nwrites' = nwrites + 1
    /\ UNCHANGED <<USER_LOGS, USER_PROGRESS, LOCK, appended>>
    /\ UNCHANGED <<tickVars, pageVars, pipeVars, concVars>>

\* with LOCK:
Acquire(t) ==
    /\ th[t].pc = "acquire" /\ CanAcquire(LOCK)
    /\ LOCK' = t
    /\ th' = [th EXCEPT ![t].pc = "locked_check"]
    /\ UNCHANGED <<USER_LOGS, USER_PROGRESS, appended, nwrites>>
    /\ UNCHANGED <<tickVars, pageVars, pipeVars, concVars>>

LockedCheck(t) ==
    /\ th[t].pc = "locked_check"
    /\ USER_LOGS' = EnsureList(USER_LOGS, th[t].key)
    /\ th' = [th EXCEPT ![t].pc = "locked_append"]
    /\ UNCHANGED <<USER_PROGRESS, LOCK, appended, nwrites>>
    /\ UNCHANGED <<tickVars, pageVars, pipeVars, concVars>>

\* the append; `appended` keeps, per user, every message a worker thread of
\* that user has appended
LockedAppend(t) ==
    /\ th[t].pc = "locked_append"
    /\ USER_LOGS' = AppendLog(USER_LOGS, th[t].key, th[t].msg)
    /\ appended' = [appended EXCEPT ![th[t].uid] = Append(@, th[t].msg)]
    /\ th' = [th EXCEPT ![t].pc = "locked_trim"]
    /\ UNCHANGED <<USER_PROGRESS, LOCK, nwrites>>
    /\ UNCHANGED <<tickVars, pageVars, pipeVars, concVars>>

\* the length check, and the end of the with block
LockedTrim(t) ==
    /\ th[t].pc = "locked_trim"
    /\ USER_LOGS' = TrimLog(USER_LOGS, th[t].key)
    /\ LOCK' = 0
    /\ th' = [th EXCEPT ![t].pc = "progress"]
    /\ UNCHANGED <<USER_PROGRESS, appended, nwrites>>
    /\ UNCHANGED <<tickVars, pageVars, pipeVars, concVars>>

\* the keyword chain; update_progress takes LOCK for its assignment
Progress(t) ==
    /\ th[t].pc = "progress"
    /\ LET args == ProgressFor(th[t].msg)
       IN IF args = None THEN USER_PROGRESS' = USER_PROGRESS
          ELSE /\ CanAcquire(LOCK)
               /\ USER_PROGRESS' = UpdateProgress(USER_PROGRESS, th[t].key, args)
    /\ th' = [th EXCEPT ![t].pc = "idle", ![t].sent = @ + 1, ![t].msg = None, ![t].key = None]
    /\ UNCHANGED <<USER_LOGS, LOCK, appended, nwrites>>
    /\ UNCHANGED <<tickVars, pageVars, pipeVars, concVars>>

LogNext ==
    \E t \in Threads :
        WriteCall(t) \/ Acquire(t) \/ LockedCheck(t) \/ LockedAppend(t) \/ LockedTrim(t)
            \/ Progress(t)
SpecLog == LogInit /\ [][LogNext]_vars

-----------------------------------------------------------------------------
(* SpecConc: run_futures_analysis invoked for two users at once, each on a  *)
(* worker thread the calling layer names after the user.  files maps a path *)
(* of the upload folder to what it holds; touched keeps, per path and per   *)
(* process-wide object, the invocations that read or wrote it; alone keeps  *)
(* what the invocation would do on its own over the folder as it was when   *)
(* the invocation began.                                                    *)

F_spot == <<"_","V","o","l","u","m","e","d","_","S","p","o","t","_","T","o","k","e","n","s",".","h","t","m","l">>
F_futures == <<"_","f","u","t","u","r","e","s",".","p","d","f">>
F_report == <<"_","a","n","a","l","y","s","i","s","_","r","e","p","o","r","t",".","p","d","f">>

ReportNameShared(uid) == F_report
\* spot_file, futures_file and pdf_path, below config.UPLOAD_FOLDER
SpotPath(uid) == uid \o F_spot
FuturesPath(uid) == uid \o F_futures
ReportPdfPath(uid) == uid \o F_report

\* the process-wide objects
Obj ==
    [stdout |-> <<"sys.stdout">>,
     LOCK |-> <<"LOCK">>,
     USER_LOGS |-> <<"USER_LOGS">>,
     USER_PROGRESS |-> <<"USER_PROGRESS">>,
     SESSION |-> <<"SESSION">>]
ProcessWide == {Obj.stdout, Obj.LOCK, Obj.USER_LOGS, Obj.USER_PROGRESS, Obj.SESSION}

Invocations == {1, 2}
InvUid(k) == IF k = 1 THEN <<"a","1">> ELSE <<"b","2">>
Touch(tc, objs, k) ==
    [o \in (DOMAIN tc) \cup objs |->
        IF o \in objs THEN (IF o \in DOMAIN tc THEN tc[o] ELSE {}) \cup {k} ELSE tc[o]]

\* what an upload folder may hold for one user
FuturesFiles ==
    {<<"corrupt", <<>>>>,
     <<"pdf", <<JoinLines(<<Line.Bitcoin, Line.BTC, Line.FinBare>>)>>>>,
     <<"pdf", <<None, JoinLines(<<Line.ETH, Line.ETH, Line.BTC, Line.FinOne, Line.FinBare>>)>>>>}
SpotFiles ==
    {<<"absent", <<>>>>,
     <<"html", [columns |-> <<Header.TickerCap, Header.VolumeCap>>,
                rows |-> <<<<<<"b","t","c">>, <<"1">>>>, <<<<"E","T","H">>, <<"2">>>>>>]>>,
     <<"html", [columns |-> <<Header.Coin, Header.Price>>, rows |-> <<<<<<"b","t","c">>, <<"1">>>>>>]>>}
Responses == {"200 and url", "200", "not 200"}

\* LogCatcher.write(text) and write("\n") of one print, on thread_name
PrintLogs(logs, thread_name, text) ==
    IF Captured(text, thread_name)
    THEN TrimLog(AppendLog(EnsureList(logs, UidOf(thread_name)), UidOf(thread_name), text),
                 UidOf(thread_name))
    ELSE logs
PrintProgress(progress, thread_name, text) ==
    IF Captured(text, thread_name) /\ ProgressFor(text) /= None
    THEN UpdateProgress(progress, UidOf(thread_name), ProgressFor(text))
    ELSE progress

\* the frame PDFParser.extract gives for what the futures file holds
ExtractOf(file) ==
    IF file[1] /= "pdf" THEN EmptyFrame
    ELSE ExtractFrame(FlatMap(file[2], LAMBDA text : parse_page_smart(PageLines(text))))
\* the frame DataProcessor.load_spot gives for what the spot file holds
LoadSpotOf(file) == IF file[1] /= "html" THEN EmptyFrame ELSE LoadSpotFrame(file[2])
\* run_futures_analysis(uid) on its own over the folder fs, up to the
\* report: whether it returns at the file check, whether the futures file
\* could not be read, what generate_report does
AloneReport(uid, fs) ==
    LET sp == SpotPath(uid)
        fp == FuturesPath(uid)
    IN IF sp \notin DOMAIN fs \/ fp \notin DOMAIN fs
       THEN [missing |-> TRUE, pdf_error |-> FALSE, raised |-> FALSE, html |-> None]
       ELSE CHOOSE x \in {[missing |-> FALSE, pdf_error |-> fs[fp][1] /= "pdf",
                           raised |-> r.raised, html |-> r.html] :
                             r \in {generate_report(ExtractOf(fs[fp]), LoadSpotOf(fs[sp]), uid)}} : TRUE
\* the run on its own to its end, the service answering resp: how it ends,
\* the report file, the texts it prints
RunAlone(report, uid, resp) ==
    LET converts == ~report.raised /\ report.html /= None
    IN IF report.missing
       THEN [outcome |-> "returned", pdf |-> None, printed |-> <<Msg.Missing>>]
       ELSE [outcome |-> IF report.raised THEN "raised" ELSE "returned",
             pdf |-> IF converts /\ resp /= "not 200" THEN report.html ELSE None,
             printed |-> <<Msg.ParsingFutures \o FuturesPath(uid)>>
                         \o (IF report.pdf_error THEN <<Msg.PdfError \o <<"e">>>> ELSE <<>>)
                         \o <<Msg.ParsingSpot \o SpotPath(uid)>>
                         \o (IF converts
                             THEN <<Msg.Converting>>
                                  \o (IF resp = "200 and url"
                                      THEN <<Msg.CloudBackup \o <<"u","r","l">>>> ELSE <<>>)
                                  \o <<Msg.Complete>>
                             ELSE <<>>)]
\* USER_PROGRESS after the texts are printed one by one on thread_name
RECURSIVE ProgressAfter(_, _, _)
ProgressAfter(progress, thread_name, texts) ==
    IF texts = <<>> THEN progress
    ELSE ProgressAfter(PrintProgress(progress, thread_name, Head(texts)), thread_name, Tail(texts))


ConcInit ==
    /\ \E fut \in [Invocations -> FuturesFiles], spot \in [Invocations -> SpotFiles] :
          files = [p \in {FuturesPath(InvUid(k)) : k \in {j \in Invocations : fut[j][1] /= "absent"}}
                          \cup {SpotPath(InvUid(k)) : k \in {j \in Invocations : spot[j][1] /= "absent"}}
                      |-> LET k == CHOOSE j \in Invocations :
                                       p \in {FuturesPath(InvUid(j)), SpotPath(InvUid(j))}
                          IN IF p = FuturesPath(InvUid(k)) THEN fut[k] ELSE spot[k]]
    /\ inv = [k \in Invocations |->
                [uid |-> InvUid(k), thread |-> ThreadName(InvUid(k)), pc |-> "start",
                 f_df |-> EmptyFrame, s_df |-> EmptyFrame, html |-> None,
                 resp |-> "not asked", outcome |-> "running", overlap |-> FALSE,
                 alone |-> None]]
    /\ touched = [o \in {} |-> {}]
    /\ USER_LOGS = EmptyDict /\ USER_PROGRESS = EmptyDict /\ LOCK = 0 /\ nwrites = 0
    /\ th = <<>> /\ appended = <<>>
    /\ tickIdle /\ pageIdle /\ pipeIdle

Other(k) == 3 - k
\* the step of k is taken while the other invocation is under way
Overlaps(k) == inv[k].overlap \/ inv[Other(k)].pc \notin {"start", "done"}

\* the text the invocation prints next, by its place in the code
PrintText(k) ==
    CASE inv[k].pc = "print_missing" -> Msg.Missing
      [] inv[k].pc = "print_futures" -> Msg.ParsingFutures \o FuturesPath(inv[k].uid)
      [] inv[k].pc = "print_pdf_error" -> Msg.PdfError \o <<"e">>
      [] inv[k].pc = "print_spot" -> Msg.ParsingSpot \o SpotPath(inv[k].uid)
      [] inv[k].pc = "print_converting" -> Msg.Converting
      [] inv[k].pc = "print_backup" -> Msg.CloudBackup \o <<"u","r","l">>
      [] inv[k].pc = "print_complete" -> Msg.Complete
AfterPrint(k) ==
    CASE inv[k].pc = "print_missing" -> "done"
      [] inv[k].pc = "print_futures" -> "extract"
      [] inv[k].pc = "print_pdf_error" -> "print_spot"
      [] inv[k].pc = "print_spot" -> "load_spot"
      [] inv[k].pc = "print_converting" -> "post"
      [] inv[k].pc = "print_backup" -> "print_complete"
      [] inv[k].pc = "print_complete" -> "done"
PrintPcs ==
    {"print_missing", "print_futures", "print_pdf_error", "print_spot", "print_converting",
     "print_backup", "print_complete"}

\* if not spot_file.exists() or not futures_file.exists()
ConcCheck(k) ==
    /\ inv[k].pc = "start"
    /\ LET u == inv[k].uid
       IN /\ touched' = Touch(touched, IF SpotPath(u) \in DOMAIN files
                                       THEN {SpotPath(u), FuturesPath(u)}
                                       ELSE {SpotPath(u)}, k)
          /\ inv' = [inv EXCEPT ![k].pc =
                        IF SpotPath(u) \notin DOMAIN files \/ FuturesPath(u) \notin DOMAIN files
                        THEN "print_missing" ELSE "print_futures",
                                ![k].alone = AloneReport(u, files),
                                ![k].overlap = Overlaps(k)]
    /\ UNCHANGED <<files, logVars, tickVars, pageVars, pipeVars>>

\* print(...): sys.stdout is the LogCatcher; its with LOCK block and
\* update_progress run when LOCK is free
ConcPrint(k) ==
    /\ inv[k].pc \in PrintPcs
    /\ CanAcquire(LOCK)
    /\ USER_LOGS' = PrintLogs(USER_LOGS, inv[k].thread, PrintText(k))
    /\ USER_PROGRESS' = PrintProgress(USER_PROGRESS, inv[k].thread, PrintText(k))
    /\ nwrites' = nwrites + 2
    /\ touched' = Touch(touched, {Obj.stdout, Obj.LOCK, Obj.USER_LOGS, Obj.USER_PROGRESS}, k)
    /\ inv' = [inv EXCEPT ![k].pc = AfterPrint(k), ![k].overlap = Overlaps(k),
                          ![k].outcome = IF AfterPrint(k) = "done" THEN "returned" ELSE @]
    /\ UNCHANGED <<files, LOCK, th, appended, tickVars, pageVars, pipeVars>>

\* PDFParser.extract(futures_file) after its print
ConcExtract(k) ==
    /\ inv[k].pc = "extract"
    /\ LET path == FuturesPath(inv[k].uid)
           file == IF path \in DOMAIN files THEN files[path] ELSE <<"absent", <<>>>>
       IN /\ touched' = Touch(touched, {path}, k)
          /\ inv' = [inv EXCEPT ![k].f_df = ExtractOf(file),
                                ![k].pc = IF file[1] = "pdf" THEN "print_spot" ELSE "print_pdf_error",
                                ![k].overlap = Overlaps(k)]
    /\ UNCHANGED <<files, logVars, tickVars, pageVars, pipeVars>>

\* DataProcessor.load_spot(spot_file) after its print
ConcLoadSpot(k) ==
    /\ inv[k].pc = "load_spot"
    /\ LET path == SpotPath(inv[k].uid)
           file == IF path \in DOMAIN files THEN files[path] ELSE <<"absent", <<>>>>
       IN /\ touched' = Touch(touched, {path}, k)
          /\ inv' = [inv EXCEPT ![k].s_df = LoadSpotOf(file), ![k].pc = "report",
                                ![k].overlap = Overlaps(k)]
    /\ UNCHANGED <<files, logVars, tickVars, pageVars, pipeVars>>

\* html = DataProcessor.generate_report(f_df, s_df, user_id); if html:
ConcReport(k) ==
    /\ inv[k].pc = "report"
    /\ LET r == generate_report(inv[k].f_df, inv[k].s_df, inv[k].uid)
       IN inv' = [inv EXCEPT ![k].html = r.html,
                             ![k].pc = IF ~r.raised /\ r.html /= None
                                       THEN "print_converting" ELSE "done",
                             ![k].outcome = IF r.raised THEN "raised"
                                            ELSE IF r.html = None THEN "returned" ELSE @,
                             ![k].overlap = Overlaps(k)]
    /\ UNCHANGED <<files, touched, logVars, tickVars, pageVars, pipeVars>>

\* convert_html_to_pdf after its print: SESSION.post, the file written on
\* status 200, the upload
ConcPost(k) ==
    /\ inv[k].pc = "post"
    /\ \E resp \in Responses :
         LET path == ReportPdfPath(inv[k].uid)
             ok == resp /= "not 200"
         IN /\ files' = IF ok THEN DictSet(files, path, <<"report", inv[k].html>>) ELSE files
            /\ touched' = Touch(touched, IF ok THEN {Obj.SESSION, path} ELSE {Obj.SESSION}, k)
            /\ inv' = [inv EXCEPT ![k].pc = IF resp = "200 and url"
                                            THEN "print_backup" ELSE "print_complete",
                                  ![k].resp = resp, ![k].overlap = Overlaps(k)]
    /\ UNCHANGED <<logVars, tickVars, pageVars, pipeVars>>

ConcNext ==
    \E k \in Invocations :
        ConcCheck(k) \/ ConcPrint(k) \/ ConcExtract(k) \/ ConcLoadSpot(k) \/ ConcReport(k)
            \/ ConcPost(k)
SpecConc == ConcInit /\ [][ConcNext]_vars

IsPrefix(a, b) == Len(a) <= Len(b) /\ SubSeq(b, 1, Len(a)) = a
LogsOf(uid) == IF uid \in DOMAIN USER_LOGS THEN USER_LOGS[uid] ELSE <<>>
\* the invocation touched only files named after its own user id
OwnFilesOnly ==
    \A p \in (DOMAIN touched) \ ProcessWide :
        \A k \in touched[p] : StartsWith(p, inv[k].uid \o <<"_">>)
\* the entries of the shared dicts hold what the user's own invocation
\* printed, and a finished invocation ended as it would have alone
SameAsAlone ==
    \A k \in {j \in DOMAIN inv : inv[j].pc /= "start"} :
        LET u == inv[k].uid
            alone == RunAlone(inv[k].alone, u,
                              IF inv[k].resp = "not asked" THEN "not 200" ELSE inv[k].resp)
            progress == ProgressAfter(EmptyDict, inv[k].thread, alone.printed)
        IN /\ IsPrefix(LogsOf(u), alone.printed)
           /\ inv[k].pc = "done" =>
                /\ inv[k].outcome = alone.outcome
                /\ LogsOf(u) = alone.printed
                /\ (u \in DOMAIN USER_PROGRESS) = (u \in DOMAIN progress)
                /\ u \in DOMAIN progress => USER_PROGRESS[u] = progress[u]
                /\ IF alone.pdf = None THEN (u \o F_report) \notin DOMAIN files
                   ELSE /\ (u \o F_report) \in DOMAIN files
                        /\ files[u \o F_report] = <<"report", alone.pdf>>

\* C7 as stated: concurrent invocations for two users touch only their own
\* files, touch no process-wide variable (printing included), and end as
\* they would have alone.
C7_NoSharedStateTouched ==
    /\ OwnFilesOnly
    /\ \A o \in (DOMAIN touched) \cap ProcessWide : touched[o] = {}
    /\ SameAsAlone
\* C7 amended: concurrent invocations for two users touch only their own
\* files; the process-wide objects they touch are sys.stdout, LOCK, SESSION
\* and the dicts USER_LOGS and USER_PROGRESS, where the entry of a user holds
\* only what that user's invocation printed; each ends as it would alone.
C7_InvocationsIsolated ==
    /\ OwnFilesOnly
    /\ (DOMAIN USER_LOGS) \cup (DOMAIN USER_PROGRESS) \subseteq {inv[k].uid : k \in DOMAIN inv}
    /\ SameAsAlone
C7_Witness ==
    /\ DOMAIN inv = Invocations
    /\ \A k \in Invocations :
          /\ inv[k].pc = "done" /\ inv[k].overlap
          /\ (inv[k].uid \o F_report) \in DOMAIN files
          /\ HtmlTable(files[inv[k].uid \o F_report][2]).rows /= <<>>
    /\ HtmlTable(files[InvUid(1) \o F_report][2]) /= HtmlTable(files[InvUid(2) \o F_report][2])
    /\ touched[Obj.USER_LOGS] = Invocations /\ touched[Obj.LOCK] = Invocations
    /\ Len(USER_LOGS[InvUid(1)]) >= 4 /\ Len(USER_LOGS[InvUid(2)]) >= 4

\* the last n elements of a list
LastN(list, n) == IF Len(list) <= n THEN list ELSE SubSeq(list, Len(list) - n + 1, Len(list))

\* C10: while LOCK is free, each list USER_LOGS[uid] holds at most 500
\* messages, the most recent ones that worker threads named "user_" + uid
\* appended, in the order of the appends.
C10_LogsAreLastMessages ==
    LOCK = 0 =>
        /\ \A u \in DOMAIN USER_LOGS : u \in WorkerUids /\ Len(USER_LOGS[u]) <= MAX_LOGS
        /\ \A u \in WorkerUids :
              IF u \in DOMAIN USER_LOGS
              THEN USER_LOGS[u] = LastN(appended[u], MAX_LOGS)
              ELSE appended[u] = <<>>
C10_Witness ==
    /\ LOCK = 0
    /\ Len(appended[<<"a","1">>]) = MAX_LOGS + 2
    /\ Len(USER_LOGS[<<"a","1">>]) = MAX_LOGS
    /\ \E k \in 1..(MAX_LOGS - 1) :
          /\ StartsWith(USER_LOGS[<<"a","1">>][k], Msg.ParsingFutures \o <<"1">>)
          /\ StartsWith(USER_LOGS[<<"a","1">>][k + 1], Msg.ParsingFutures \o <<"2">>)
    /\ th[1].uid = <<"a","1">> /\ th[2].uid = <<"a","1">>

-----------------------------------------------------------------------------
(* Properties of the parser.                                               *)

IsStrictTicker(x) ==
    Len(x) <= 15 /\ 2 <= Len(Normalize(x)) /\ Len(Normalize(x)) <= 12
\* the pairs of a forward pass over the label lines L that stands at idx
RECURSIVE ForwardPass(_, _)
ForwardPass(L, idx) ==
    IF idx >= Len(L) THEN <<>>
    ELSE IF idx + 1 < Len(L) /\ IsStrictTicker(L[idx + 2])
    THEN << <<L[idx + 1], Normalize(L[idx + 2])>> >> \o ForwardPass(L, idx + 2)
    ELSE ForwardPass(L, idx + 1)
\* the positions that pass stands at
RECURSIVE PassPositions(_, _)
PassPositions(L, idx) ==
    IF idx >= Len(L) THEN {idx}
    ELSE IF idx + 1 < Len(L) /\ IsStrictTicker(L[idx + 2])
    THEN {idx} \cup PassPositions(L, idx + 2)
    ELSE {idx} \cup PassPositions(L, idx + 1)
ExampleLabels == <<Line.BTC, Line.BTC, Line.Bitcoin, Line.ETH>>

\* C1: the resolver is one forward pass from i = 0 that, where L[i+1] exists
\* and is a strict ticker, emits (L[i], normalized L[i+1]) and advances by 2,
\* and otherwise emits nothing and advances by 1: in its loop it stands at a
\* position of that pass holding the pairs the pass emitted before it, its
\* result is the pairs of the pass, and ["BTC","BTC","Bitcoin","ETH"] gives
\* ("BTC","BTC"), ("Bitcoin","ETH").
C1_ResolverIsForwardPass ==
    /\ pg_pc = "while" =>
          /\ i \in PassPositions(raw_text_lines, 0)
          /\ token_pairs \o ForwardPass(raw_text_lines, i) = ForwardPass(raw_text_lines, 0)
    /\ pg_pc = "done" => token_pairs = ForwardPass(raw_text_lines, 0)
    /\ (pg_pc = "done" /\ raw_text_lines = ExampleLabels) =>
          token_pairs = << <<Line.BTC, Line.BTC>>, <<Line.Bitcoin, Line.ETH>> >>
C1_Witness ==
    /\ pg_pc = "done" /\ raw_text_lines = ExampleLabels
    /\ token_pairs = << <<Line.BTC, Line.BTC>>, <<Line.Bitcoin, Line.ETH>> >>

\* C2: a page with p pairs and f financial tuples returns min(p, f) records,
\* the k-th built from the k-th pair and the k-th financial tuple.
C2_RecordsZipPairsAndFinancials ==
    pg_pc = "done" =>
        LET n == Min(Len(token_pairs), Len(financials))
        IN /\ Len(tokens) = n
           /\ \A k \in 1..n :
                /\ tokens[k].name = token_pairs[k][1]
                /\ tokens[k].ticker = token_pairs[k][2]
                /\ tokens[k].market_cap = financials[k][1]
                /\ tokens[k].volume = financials[k][2]
                /\ tokens[k].vtmr = ParseFloat(financials[k][3])
                /\ tokens[k].oiss = financials[k][4]
                /\ tokens[k].funding = financials[k][5]
C2_Witness ==
    /\ pg_pc = "done" /\ Len(token_pairs) = 3 /\ Len(financials) = 2
    /\ Len(tokens) = 2 /\ tokens[2].name = Line.LongName /\ tokens[2].ticker = Line.ETH

\* C5: every record has string-valued funding and open-interest fields: where
\* an optional group of the financial pattern took no part in the match, the
\* field is the default "-", never None.
C5_OptionalFieldsDefaultToDash ==
    pg_pc = "done" =>
        \A k \in 1..Len(tokens) :
            /\ tokens[k].oiss /= None /\ tokens[k].funding /= None
            /\ financials[k][4] = None => tokens[k].oiss = <<"-">>
            /\ financials[k][5] = None => tokens[k].funding = <<"-">>

IsTickerShape(t) ==
    /\ t /= None /\ 2 <= Len(t) /\ Len(t) <= 12
    /\ \A k \in 1..Len(t) : IsAZ09(t[k])

\* C8: _clean_ticker_strict returns the normalized form of a text whose raw
\* length is at most 15 and whose normalized length is between 2 and 12, and
\* None for every other text; so the ticker of every pair and of every record
\* is an upper-case alphanumeric string of length 2..12.
C8_StrictTickerBounds ==
    /\ tk_pc = "cleaned" =>
          IF Len(tk_text) <= 15 /\ 2 <= Len(Normalize(tk_text))
                /\ Len(Normalize(tk_text)) <= 12
          THEN tk_cleaned = Normalize(tk_text)
          ELSE tk_cleaned = None
    /\ \A k \in 1..Len(token_pairs) : IsTickerShape(token_pairs[k][2])
    /\ \A k \in 1..Len(tokens) : IsTickerShape(tokens[k].ticker)
    /\ \A k \in 1..Len(data) : IsTickerShape(data[k].ticker)
C8_Witness ==
    /\ tk_pc = "cleaned" /\ Len(tk_text) = 15 /\ Len(Normalize(tk_text)) = 12
    /\ tk_cleaned = Normalize(tk_text)

\* C9: normalizing a normalized text changes nothing, so the re-normalization
\* of extract leaves the ticker of every record as _parse_page_smart made it.
C9_NormalizeIdempotent ==
    /\ tk_pc = "renormalized" =>
          /\ tk_norm /= None => tk_renorm = tk_norm
          /\ tk_cleaned /= None => tk_renorm = tk_cleaned
    /\ (pc \in {"load_spot", "report", "convert", "done"} /\ ~FrameEmpty(f_df)) =>
          /\ Len(f_df.rows) = Len(data)
          /\ \A k \in 1..Len(data) : f_df.rows[k][ColumnIndex(f_df, Col.ticker)] = data[k].ticker
C9_Witness ==
    /\ tk_pc = "renormalized" /\ tk_norm /= None /\ tk_norm /= tk_text
    /\ Len(tk_norm) >= 2 /\ tk_renorm = tk_norm

-----------------------------------------------------------------------------
(* Properties of the pipeline.                                             *)

\* C3: no exception propagates out of the parsing or merging pipeline:
\* extract, load_spot and generate_report each return a value, also for a
\* non-empty spot table without a ticker column.
C3_NoExceptionPropagates == outcome /= "raised"

\* the tickers of a frame (none when it has no ticker column)
FrameTickers(df) ==
    IF HasColumn(df, Col.ticker)
    THEN {df.rows[k][ColumnIndex(df, Col.ticker)] : k \in 1..Len(df.rows)}
    ELSE {}

\* C4: when the futures records and the spot rows are both non-empty and
\* share no ticker, generate_report returns None and no PDF is rendered.
C4_NoReportWithoutOverlap ==
    (/\ pc \in {"convert", "done"}
     /\ ~FrameEmpty(f_df) /\ ~FrameEmpty(s_df)
     /\ HasColumn(s_df, Col.ticker)
     /\ FrameTickers(f_df) \cap FrameTickers(s_df) = {})
        => html = None /\ pdf_file = None

\* the table t holds the inner join of the spot rows s and the futures rows f
TableIsInnerJoin(t, f, s) ==
    /\ FrameTickers(t) = FrameTickers(f) \cap FrameTickers(s)
    /\ Len(t.rows) =
          Cardinality({m \in (1..Len(s.rows)) \X (1..Len(f.rows)) :
                          /\ HasColumn(s, Col.ticker)
                          /\ s.rows[m[1]][ColumnIndex(s, Col.ticker)]
                                = f.rows[m[2]][ColumnIndex(f, Col.ticker)]})

\* C6: generate_report returns None when the futures set or the spot set is
\* empty, and otherwise a report whose table is the inner join on ticker, one
\* row per matching (spot row, futures row).
C6_ReportIsInnerJoin ==
    pc \in {"convert", "done"} =>
        IF FrameEmpty(f_df) \/ FrameEmpty(s_df)
        THEN html = None
        ELSE html /= None /\ TableIsInnerJoin(HtmlTable(html), f_df, s_df)

\* what generate_report does keep: None for an empty input, and the inner
\* join whenever it returns a report
ReturnedReportIsInnerJoin ==
    pc \in {"convert", "done"} =>
        /\ (FrameEmpty(f_df) \/ FrameEmpty(s_df)) => html = None
        /\ html /= None => TableIsInnerJoin(HtmlTable(html), f_df, s_df)
ReturnedReportWitness ==
    /\ pc = "done" /\ html /= None /\ Len(HtmlTable(html).rows) = 1
    /\ FrameTickers(f_df) = {Line.BTC, Line.ETH}
    /\ FrameTickers(s_df) = {Line.BTC, <<"S","O","L">>}

====
